---- MODULE Spec2Model ----
(***************************************************************************)
(* Model of physo/learn/monitoring.py: RunLogger (per-epoch statistics,    *)
(* hall of fame, Pareto bins, CSV log) and RunVisualiser (periodic         *)
(* rendering, save_path_log).                                              *)
(*                                                                         *)
(* Numbers: rewards are floats in the source; the model uses small         *)
(* naturals for them (0 is a reward that is not > 0).  Complexities are    *)
(* floats that the source rounds; the model keeps them in halves (c2 = 2*c)*)
(* so that numpy's round-half-to-even is computed, not assumed.  A mean is *)
(* kept as the pair sum / count.  Rewards are never NaN (the reward        *)
(* computation is external to this file); NaN only marks an empty bin.     *)
(***************************************************************************)
EXTENDS Integers, Sequences, FiniteSets, TLC

\* ------------------------------------------------------------------ bounds
MaxEpoch     == 2   \* log is called with epochs 0..MaxEpoch
BatchSize    == 2   \* programs per batch
MaxPathLen   == 4   \* characters in save_path
MaxRate      == 2   \* epoch_refresh_rate ranges over 1..MaxRate

\* ------------------------------------------------- values of the source
NaN          == -1000            \* np.NaN, the reward of an empty bin
NoEpoch      == -1               \* self.epoch = None
None         == [ep |-> -1, idx |-> -1]   \* None in pareto_programs

\* A candidate program as the batch presents it: reward, complexity in
\* halves, length, physical-units flag.
Candidates ==
    { [r |-> 0, c2 |-> 1, len |-> 1, phys |-> FALSE],    \* 0.5 -> bin 0, reward not > 0
      [r |-> 2, c2 |-> 2, len |-> 2, phys |-> TRUE ],    \* 1.0 -> bin 1
      [r |-> 1, c2 |-> 3, len |-> 2, phys |-> FALSE],    \* 1.5 -> bin 2
      [r |-> 2, c2 |-> 5, len |-> 3, phys |-> TRUE ],    \* 2.5 -> bin 2
      [r |-> 3, c2 |-> 7, len |-> 3, phys |-> TRUE ] }   \* 3.5 -> bin 4

\* the candidates of the runs that exercise keep, loss, lengths and the CSV log
StatCandidates == { c \in Candidates : c.c2 <= 3 }

LossVals     == {0, 1}
MaxTimeSteps == {1}              \* batch.max_time_step
Chars        == {"a", ".", "/"}  \* alphabet of save_path

\* ------------------------------------------------------------- helpers
RECURSIVE SumSeq(_)
SumSeq(s) == IF s = << >> THEN 0 ELSE Head(s) + SumSeq(Tail(s))

RECURSIVE MaxSeq(_)
\* ndarray.max() / np.max over a non-empty sequence
MaxSeq(s) == IF Len(s) = 1 THEN s[1]
             ELSE LET m == MaxSeq(Tail(s)) IN IF Head(s) >= m THEN Head(s) ELSE m

\* ndarray.argmax(): first index (1-based here) attaining the maximum
ArgMax(s) == CHOOSE i \in 1..Len(s) :
                /\ s[i] = MaxSeq(s)
                /\ \A j \in 1..(i-1) : s[j] # MaxSeq(s)

\* ndarray.mean() as sum / count
Mean(s) == [sum |-> SumSeq(s), n |-> Len(s)]

\* variant: the index array is ignored and the whole array is taken
Take_All(s, idxs) == s

\* fancy indexing s[idxs]
Take(s, idxs) == [k \in 1..Len(idxs) |-> s[idxs[k]]]

RECURSIVE SetToIdx(_)
\* a set of indices as an increasing index array (np.argwhere, boolean masks)
SetToIdx(S) == IF S = {} THEN << >>
               ELSE LET m == CHOOSE x \in S : \A y \in S : x <= y
                    IN <<m>> \o SetToIdx(S \ {m})

\* np.round on a value given in halves: round half to even
Round2(c2) == IF c2 % 2 = 0 THEN c2 \div 2
              ELSE IF ((c2 - 1) \div 2) % 2 = 0 THEN (c2 - 1) \div 2
                   ELSE (c2 + 1) \div 2

\* batch.programs.get_prog(i) at a given epoch: the program object
get_prog(e, i) == [ep |-> e, idx |-> i]

\* ---------------------------------------------------------------- state
VARIABLES
    \* RunLogger
    do_save, file,
    epoch, R, batch, keep, notkept, best_prog_epoch, programs_epoch,
    overall_max_R_history, hall_of_fame,
    epochs_history, loss_history,
    mean_R_train_history, mean_R_history, max_R_history,
    R_history, R_history_train,
    best_prog_complexity_history, mean_complexity_history,
    R_history_array, R_history_train_array,
    n_physical, lengths_of_physical, lengths_of_unphysical,
    pareto_complexities, pareto_rewards, pareto_programs,
    \* value returned by the last RunLogger call, and the log calls made
    ret, calls,
    \* RunVisualiser
    constructed, epoch_refresh_rate, save_path, save_path_log, vis_do_show, vis_do_save,
    fig, vis_run_logger, vis_batch,
    \* what the last visualise call did, and the epochs visualise was called with
    last, vis_epochs

epochVars  == <<epoch, R, batch, keep, notkept, best_prog_epoch, programs_epoch>>
bestVars   == <<overall_max_R_history, hall_of_fame>>
histVars   == <<epochs_history, loss_history, mean_R_train_history, mean_R_history,
                max_R_history, R_history, R_history_train,
                best_prog_complexity_history, mean_complexity_history,
                R_history_array, R_history_train_array,
                n_physical, lengths_of_physical, lengths_of_unphysical>>
paretoVars == <<pareto_complexities, pareto_rewards, pareto_programs>>
loggerVars == <<do_save, file, epochVars, bestVars, histVars, paretoVars, ret, calls>>

visVars    == <<constructed, epoch_refresh_rate, save_path, save_path_log, vis_do_show,
                vis_do_save, fig, vis_run_logger, vis_batch, last, vis_epochs>>

vars == <<loggerVars, visVars>>

NoBatch == [programs |-> << >>, max_time_step |-> 0, batch_size |-> 0]
Stale   == <<[kind |-> "stale"]>>          \* content of a file left by an earlier run

\* RunLogger.__init__ + initialize
InitLogger ==
    /\ do_save \in BOOLEAN
    /\ file = Stale
    /\ epoch = NoEpoch
    /\ R = << >> /\ batch = NoBatch /\ keep = << >> /\ notkept = << >>
    /\ best_prog_epoch = None /\ programs_epoch = << >>
    /\ overall_max_R_history = << >> /\ hall_of_fame = << >>
    /\ epochs_history = << >> /\ loss_history = << >>
    /\ mean_R_train_history = << >> /\ mean_R_history = << >> /\ max_R_history = << >>
    /\ R_history = << >> /\ R_history_train = << >>
    /\ best_prog_complexity_history = << >> /\ mean_complexity_history = << >>
    /\ R_history_array = << >> /\ R_history_train_array = << >>
    /\ n_physical = << >> /\ lengths_of_physical = << >> /\ lengths_of_unphysical = << >>
    /\ pareto_complexities = << >> /\ pareto_rewards = << >> /\ pareto_programs = << >>
    /\ ret = [kind |-> "None"] /\ calls = << >>

\* ----------------------------------------------------- RunLogger.log
n_complexity(b) == [i \in 1..Len(b.programs) |-> b.programs[i].c2]
n_lengths(b)    == [i \in 1..Len(b.programs) |-> b.programs[i].len]
is_physical(b)  == {i \in 1..Len(b.programs) : b.programs[i].phys}
not_physical(b) == {i \in 1..Len(b.programs) : ~b.programs[i].phys}

\* comparisons with a possibly-NaN left operand (IEEE: false when NaN)
IsNaN(x)   == x = NaN
Leq(x, y)  == ~IsNaN(x) /\ ~IsNaN(y) /\ x <= y

\* variant: an epoch that does not improve records its own maximum
BestUpdate_OwnMax(e, rewards, omax, hof) ==
    LET best == ArgMax(rewards) IN
    IF e = 0
    THEN [omax |-> <<MaxSeq(rewards)>>, hof |-> <<get_prog(e, best)>>]
    ELSE IF e > 0
    THEN IF MaxSeq(rewards) > MaxSeq(omax)
         THEN [omax |-> Append(omax, MaxSeq(rewards)),
               hof  |-> Append(hof, get_prog(e, best))]
         ELSE [omax |-> Append(omax, MaxSeq(rewards)), hof |-> hof]
    ELSE [omax |-> omax, hof |-> hof]

\* variant: a tie with the best so far also enters the hall of fame
BestUpdate_Geq(e, rewards, omax, hof) ==
    LET best == ArgMax(rewards) IN
    IF e = 0
    THEN [omax |-> <<MaxSeq(rewards)>>, hof |-> <<get_prog(e, best)>>]
    ELSE IF e > 0
    THEN IF MaxSeq(rewards) >= MaxSeq(omax)
         THEN [omax |-> Append(omax, MaxSeq(rewards)),
               hof  |-> Append(hof, get_prog(e, best))]
         ELSE [omax |-> Append(omax, omax[Len(omax)]), hof |-> hof]
    ELSE [omax |-> omax, hof |-> hof]

\* overall_max_R_history and hall_of_fame after log (lines 59-67)
BestUpdate(e, rewards, omax, hof) ==
    LET best == ArgMax(rewards) IN
    IF e = 0
    THEN [omax |-> <<MaxSeq(rewards)>>, hof |-> <<get_prog(e, best)>>]
    ELSE IF e > 0
    THEN IF MaxSeq(rewards) > MaxSeq(omax)
         THEN [omax |-> Append(omax, MaxSeq(rewards)),
               hof  |-> Append(hof, get_prog(e, best))]
         ELSE [omax |-> Append(omax, omax[Len(omax)]), hof |-> hof]
    ELSE [omax |-> omax, hof |-> hof]

\* variant: the batch's best at a complexity always overwrites the bin
ParetoReplace_Always(stored, max_r_at_c) == TRUE

\* should the stored entry of a bin be replaced (line 143)
ParetoReplace(stored, max_r_at_c) == Leq(stored, max_r_at_c) \/ IsNaN(stored)

\* pareto_logger (lines 122-145): the three arrays after the call.
\* Index i+1 of the sequences is bin i of the source arrays.
ParetoLogger(e, b, rewards, pc, pr, pp) ==
    LET nb   == 10 * b.max_time_step
        pc0  == IF e = 0 THEN [i \in 1..nb |-> i - 1] ELSE pc
        pr0  == IF e = 0 THEN [i \in 1..nb |-> NaN]   ELSE pr
        pp0  == IF e = 0 THEN [i \in 1..nb |-> None]  ELSE pp
        cc   == << >> \o n_complexity(b)
        Bin(i) ==
            LET arg_have_c == SetToIdx({j \in 1..Len(cc) : Round2(cc[j]) = pc0[i]})
            IN IF Len(arg_have_c) > 0
               THEN LET arg_have_c_and_max ==
                            arg_have_c[ArgMax(Take(rewards, arg_have_c))]
                        max_r_at_c == rewards[arg_have_c_and_max]
                    IN IF ParetoReplace(pr0[i], max_r_at_c)
                       THEN [r |-> max_r_at_c, p |-> get_prog(e, arg_have_c_and_max)]
                       ELSE [r |-> pr0[i], p |-> pp0[i]]
               ELSE [r |-> pr0[i], p |-> pp0[i]]
        bins == << >> \o [i \in 1..Len(pc0) |-> Bin(i)]
    IN [pc |-> pc0,
        pr |-> [i \in 1..Len(pc0) |-> bins[i].r],
        pp |-> [i \in 1..Len(pc0) |-> bins[i].p]]

Header == [kind |-> "header",
           columns |-> <<"epoch", "reward", "complexity", "length", "is_physical",
                         "is_elite", "program">>]

\* the rows of the current batch (lines 103-114)
BatchRows(e, b, rewards, k) ==
    [i \in 1..b.batch_size |->
        [kind |-> "row", epoch |-> e, reward |-> rewards[i],
         complexity |-> n_complexity(b)[i], length |-> n_lengths(b)[i],
         is_physical |-> i \in is_physical(b),
         is_elite |-> \E j \in 1..Len(k) : k[j] = i,
         program |-> get_prog(e, i)]]

\* variant: the header is written in append mode, like the rows
SaveLog_AppendHeader(e, b, rewards, k, f) ==
    LET f0 == IF e = 0 THEN f \o <<Header>> ELSE f
    IN f0 \o BatchRows(e, b, rewards, k)

\* save_log (lines 96-119): content of the file at save_path after the call
SaveLog(e, b, rewards, k, f) ==
    LET f0 == IF e = 0 THEN <<Header>> ELSE f
    IN f0 \o BatchRows(e, b, rewards, k)

Log(e, b, rewards, k, nk, loss_val) ==
    LET best == ArgMax(rewards)
        bu   == BestUpdate(e, rewards, overall_max_R_history, hall_of_fame)
        pl   == ParetoLogger(e, b, rewards, pareto_complexities, pareto_rewards,
                             pareto_programs)
    IN
    /\ epoch' = e /\ R' = rewards /\ batch' = b /\ keep' = k /\ notkept' = nk
    /\ best_prog_epoch' = get_prog(e, best)
    /\ programs_epoch'  = [i \in 1..Len(b.programs) |-> get_prog(e, i)]
    /\ overall_max_R_history' = bu.omax
    /\ hall_of_fame'          = bu.hof
    /\ epochs_history'        = Append(epochs_history, e)
    /\ loss_history'          = Append(loss_history, loss_val)
    /\ mean_R_train_history'  = Append(mean_R_train_history, Mean(Take(rewards, k)))
    /\ mean_R_history'        = Append(mean_R_history, Mean(rewards))
    /\ max_R_history'         = Append(max_R_history, MaxSeq(rewards))
    /\ R_history'             = Append(R_history, rewards)
    /\ R_history_train'       = Append(R_history_train, Take(rewards, k))
    /\ best_prog_complexity_history' =
           Append(best_prog_complexity_history, n_complexity(b)[best])
    /\ mean_complexity_history' = Append(mean_complexity_history, Mean(n_complexity(b)))
    /\ R_history_array'       = R_history'
    /\ R_history_train_array' = R_history_train'
    /\ n_physical'            = Append(n_physical, Cardinality(is_physical(b)))
    /\ lengths_of_physical'   =
           Append(lengths_of_physical, Take(n_lengths(b), SetToIdx(is_physical(b))))
    /\ lengths_of_unphysical' =
           Append(lengths_of_unphysical, Take(n_lengths(b), SetToIdx(not_physical(b))))
    /\ pareto_complexities' = pl.pc
    /\ pareto_rewards'      = pl.pr
    /\ pareto_programs'     = pl.pp
    /\ file' = IF do_save THEN SaveLog(e, b, rewards, k, file) ELSE file
    /\ ret' = [kind |-> "None"]
    /\ calls' = Append(calls, [epoch |-> e, batch |-> b, rewards |-> rewards,
                               keep |-> k, notkept |-> nk, loss_val |-> loss_val])
    /\ UNCHANGED do_save
    /\ UNCHANGED visVars

\* the calls the training loop makes: a batch of BatchSize candidates with its
\* rewards, the indices kept as elite, the others, and the loss
LogCalls(cands, keeps, losses) ==
    { [batch   |-> [programs |-> [i \in 1..BatchSize |->
                                     [c2 |-> cs[i].c2, len |-> cs[i].len,
                                      phys |-> cs[i].phys]],
                    max_time_step |-> mts, batch_size |-> BatchSize],
       rewards |-> [i \in 1..BatchSize |-> cs[i].r],
       keep    |-> SetToIdx(ks),
       notkept |-> SetToIdx((1..BatchSize) \ ks),
       loss_val |-> l]
      : cs \in [1..BatchSize -> cands], mts \in MaxTimeSteps, ks \in keeps, l \in losses }

AllKeeps == (SUBSET (1..BatchSize)) \ {{}}

SearchCalls == LogCalls(Candidates, {{1}}, {0})
StatCalls   == LogCalls(StatCandidates, AllKeeps, LossVals)
VisCalls    == LogCalls({c \in Candidates : c.c2 = 2}, {{1}}, {0})

\* the training loop calls log once per epoch, epochs 0, 1, 2, ... in order
LogFrom(inputs) ==
    /\ Len(calls) <= MaxEpoch
    /\ \E c \in inputs :
          Log(Len(calls), c.batch, c.rewards, c.keep, c.notkept, c.loss_val)

LogStep  == LogFrom(SearchCalls)
LogStats == LogFrom(StatCalls)
LogVis   == LogFrom(VisCalls)

\* --------------------------------------------- RunLogger.get_pareto_front
\* indices of the valid bins, in increasing order (line 150)
ValidBins(pr) == SetToIdx({i \in 1..Len(pr) : ~IsNaN(pr[i]) /\ pr[i] > 0})

\* variant: a candidate that only equals the last front reward is added
FrontAdds_Geq(r, lastR) == r >= lastR

\* is a candidate reward added to the front whose last reward is lastR (line 160)
FrontAdds(r, lastR) == r > lastR

RECURSIVE FrontScan(_, _, _, _)
\* the loop of lines 158-163: front holds the bin indices kept so far
FrontScan(pr, valid, k, front) ==
    IF k > Len(valid) THEN front
    ELSE FrontScan(pr, valid, k + 1,
                   IF FrontAdds(pr[valid[k]], pr[front[Len(front)]])
                   THEN Append(front, valid[k]) ELSE front)

\* the value get_pareto_front returns, or the exception it raises
ParetoFront(e, pc, pr, pp) ==
    IF e = NoEpoch THEN [kind |-> "AttributeError"]
    ELSE LET valid == ValidBins(pr) IN
         IF Len(valid) = 0 THEN [kind |-> "IndexError"]
         ELSE LET front == FrontScan(pr, valid, 1, <<valid[1]>>) IN
              [kind |-> "front",
               complexities |-> Take(pc, front),
               programs     |-> Take(pp, front),
               r            |-> Take(pr, front),
               rmse         |-> [k \in 1..Len(front) |->
                                    [num |-> 1 - pr[front[k]], den |-> pr[front[k]]]]]

GetParetoFront ==
    /\ ret.kind = "None"
    /\ ret' = ParetoFront(epoch, pareto_complexities, pareto_rewards, pareto_programs)
    /\ UNCHANGED <<do_save, file, epochVars, bestVars, histVars, paretoVars, calls>>
    /\ UNCHANGED visVars

\* RunLogger.best_prog
best_prog == hall_of_fame[Len(hall_of_fame)]

\* ------------------------------------------------ RunVisualiser.__init__
RECURSIVE Split(_, _)
\* str.split(sep): the segments between separators (always at least one)
Split(s, sep) ==
    IF \A i \in 1..Len(s) : s[i] # sep THEN <<s>>
    ELSE LET i == CHOOSE k \in 1..Len(s) : s[k] = sep /\ \A j \in 1..(k-1) : s[j] # sep
         IN <<SubSeq(s, 1, i - 1)>> \o Split(SubSeq(s, i + 1, Len(s)), sep)

RECURSIVE Join(_)
\* ''.join(segments)
Join(segs) == IF segs = << >> THEN << >> ELSE Head(segs) \o Join(Tail(segs))

LogSuffix == <<"_", "l", "o", "g", ".", "c", "s", "v">>

\* line 186
SavePathLog(path) ==
    LET parts == Split(path, ".") IN Join(SubSeq(parts, 1, Len(parts) - 1)) \o LogSuffix

NoLast == [called |-> FALSE, epoch |-> NoEpoch, initialized |-> FALSE,
           attempted |-> FALSE, show_called |-> FALSE, show_raised |-> FALSE,
           save_called |-> FALSE, save_raised |-> FALSE, caught |-> FALSE,
           printed |-> "", returned |-> FALSE]

InitVisualiser ==
    /\ constructed = FALSE
    /\ epoch_refresh_rate = 0 /\ save_path = << >> /\ save_path_log = << >>
    /\ vis_do_show = FALSE /\ vis_do_save = FALSE
    /\ fig = FALSE /\ vis_run_logger = NoEpoch /\ vis_batch = NoBatch
    /\ last = NoLast /\ vis_epochs = {}

NewVisualiser(rate, path, show, save) ==
    /\ ~constructed
    /\ constructed' = TRUE
    /\ epoch_refresh_rate' = rate
    /\ save_path' = path
    /\ save_path_log' = SavePathLog(path)
    /\ vis_do_show' = show
    /\ vis_do_save' = save
    /\ UNCHANGED <<fig, vis_run_logger, vis_batch, last, vis_epochs>>
    /\ UNCHANGED loggerVars

RECURSIVE Strings(_)
\* the strings over Chars of length at most n
Strings(n) == IF n = 0 THEN {<< >>}
              ELSE LET shorter == Strings(n - 1)
                   IN shorter \cup {Append(t, c) : t \in shorter, c \in Chars}

Paths == Strings(MaxPathLen)

Construct     == \E path \in Paths, rate \in 1..MaxRate, show \in BOOLEAN, save \in BOOLEAN :
                    NewVisualiser(rate, path, show, save)
ConstructVis  == \E rate \in 1..MaxRate, show \in BOOLEAN, save \in BOOLEAN :
                    NewVisualiser(rate, <<"a", ".", "a">>, show, save)

\* ------------------------------------------------ RunVisualiser.visualise
\* make_visualisation / save_visualisation raise: update_plot reads self.ax0 and
\* self.fig, which exist only after initialize; with a figure the plotting and
\* statistics libraries may still raise (fault)
RenderRaises(figExists, fault) == ~figExists \/ fault

\* variant: the refresh is counted from epoch 1
IsRefresh_Shifted(e, rate) == (e + 1) % rate = 0

\* is the render attempted at this epoch (line 465)
IsRefresh(e, rate) == e % rate = 0

\* variant: show and save each in a try block of their own
SaveReached_OwnTry(doSave, showRaised) == doSave

\* is save_visualisation reached (lines 467-470: one try block)
SaveReached(doSave, showRaised) == doSave /\ ~showRaised

Visualise(showFault, saveFault) ==
    LET e           == epoch
        figNow      == fig \/ e = 0
        attempted   == IsRefresh(e, epoch_refresh_rate)
        show_called == attempted /\ vis_do_show
        show_raised == show_called /\ RenderRaises(figNow, showFault)
        save_called == attempted /\ SaveReached(vis_do_save, show_raised)
        save_raised == save_called /\ RenderRaises(figNow, saveFault)
        caught      == show_raised \/ save_raised
    IN
    /\ constructed
    /\ epoch # NoEpoch
    /\ vis_run_logger' = e
    /\ vis_batch' = batch
    /\ fig' = figNow
    /\ last' = [called |-> TRUE, epoch |-> e, initialized |-> (e = 0),
                attempted |-> attempted,
                show_called |-> show_called, show_raised |-> show_raised,
                save_called |-> save_called, save_raised |-> save_raised,
                caught |-> caught,
                printed |-> IF caught THEN "Unable to make visualisation plots." ELSE "",
                returned |-> TRUE]
    /\ vis_epochs' = vis_epochs \cup {e}
    /\ UNCHANGED <<constructed, epoch_refresh_rate, save_path, save_path_log,
                   vis_do_show, vis_do_save>>
    /\ UNCHANGED loggerVars

VisualiseStep == \E showFault \in BOOLEAN, saveFault \in BOOLEAN :
                    Visualise(showFault, saveFault)

\* ------------------------------------------------------- specifications
Init == InitLogger /\ InitVisualiser

\* the search loop: log every epoch, read the Pareto front at will
Next == LogStep \/ GetParetoFront

Spec == Init /\ [][Next]_vars

\* the same loop with every choice of elite indices and loss
NextStats == LogStats

SpecStats == Init /\ [][NextStats]_vars

\* the loop with a visualiser
NextVis == ConstructVis \/ LogVis \/ VisualiseStep

SpecVis == Init /\ [][NextVis]_vars

\* construction of a visualiser for every save_path
NextPath == Construct

SpecPath == Init /\ [][NextPath]_vars

\* ================================================================ claims
\* what the claims speak of, read off the log calls made (calls[k+1] is the
\* call for epoch k)
SetMax(S)      == CHOOSE x \in S : \A y \in S : y <= x
RewardsOf(k)   == {calls[k].rewards[i] : i \in 1..Len(calls[k].rewards)}
RewardsUpTo(k) == UNION {RewardsOf(j) : j \in 1..k}
EpochMax(k)    == SetMax(RewardsOf(k))
RewardOf(p)    == calls[p.ep + 1].rewards[p.idx]
ComplexOf(p)   == calls[p.ep + 1].batch.programs[p.idx].c2
Logged         == {[ep |-> j - 1, idx |-> i] : j \in 1..Len(calls), i \in 1..BatchSize}
FirstMaxIdx(rw) == CHOOSE i \in 1..Len(rw) :
                      /\ \A j \in 1..Len(rw) : rw[j] <= rw[i]
                      /\ \A j \in 1..(i - 1) : rw[j] < rw[i]
IsPrefix(s, t) == Len(s) <= Len(t) /\ \A i \in 1..Len(s) : s[i] = t[i]

\* ------------------------------------------------------------------- C1
\* C1: after each log call, overall_max_R_history[k] is the maximum reward over
\* all programs of all batches logged at epochs 0..k, the list is non-decreasing,
\* and best_prog is a program of the batch of an epoch whose maximum reward
\* equals overall_max_R_history[-1].
C1_BestEverTracking ==
    /\ Len(overall_max_R_history) = Len(calls)
    /\ \A k \in 1..Len(calls) : overall_max_R_history[k] = SetMax(RewardsUpTo(k))
    /\ \A k \in 2..Len(calls) : overall_max_R_history[k - 1] <= overall_max_R_history[k]
    /\ Len(calls) > 0 =>
         /\ Len(hall_of_fame) > 0
         /\ best_prog \in Logged
         /\ EpochMax(best_prog.ep + 1) = overall_max_R_history[Len(calls)]

\* an epoch below the best so far followed by a new best
C1_Witness ==
    /\ Len(calls) = 3
    /\ EpochMax(2) < EpochMax(1)
    /\ EpochMax(3) > EpochMax(1)

\* ------------------------------------------------------------------- C7
C7_State ==
    /\ \A k \in 2..Len(hall_of_fame) :
          RewardOf(hall_of_fame[k - 1]) < RewardOf(hall_of_fame[k])
    /\ Len(calls) > 0 =>
          Len(hall_of_fame) =
             1 + Cardinality({k \in 2..Len(calls) :
                                 \A j \in 1..(k - 1) : EpochMax(j) < EpochMax(k)})

C7_Step ==
    (Len(calls') = Len(calls) + 1) =>
        LET e   == epoch'
            rw  == R'
            new == [ep |-> e, idx |-> FirstMaxIdx(rw)]
        IN IF e = 0 THEN hall_of_fame' = <<new>>
           ELSE IF \A k \in 1..Len(overall_max_R_history) :
                      overall_max_R_history[k] < rw[new.idx]
                THEN hall_of_fame' = Append(hall_of_fame, new)
                ELSE hall_of_fame' = hall_of_fame

\* C7: at an epoch > 0 a program is appended to hall_of_fame iff the epoch's
\* maximum reward is strictly greater than every value in overall_max_R_history;
\* the appended program is the first of the batch attaining the epoch maximum;
\* hall-of-fame rewards strictly increase, its length is 1 plus the number of
\* strictly improving epochs, and a tie leaves best_prog unchanged.
C7_HallOfFame == [][C7_Step]_vars /\ []C7_State

\* a strict improvement, then an epoch that only ties it with two programs
C7_Witness ==
    /\ Len(calls) = 3
    /\ EpochMax(1) < EpochMax(2)
    /\ EpochMax(3) = EpochMax(2)
    /\ calls[3].rewards[1] = calls[3].rewards[2]
    /\ Len(hall_of_fame) = 2
    /\ best_prog.ep = 1

\* ------------------------------------------------------------------- C2
\* the logged programs whose rounded complexity is c
LoggedAt(c) == {p \in Logged : Round2(ComplexOf(p)) = c}

C2_State ==
    Len(calls) > 0 =>
        LET nb == 10 * calls[1].batch.max_time_step IN
        /\ Len(pareto_rewards) = nb /\ Len(pareto_programs) = nb
        /\ \A c \in 0..(nb - 1) :
              /\ pareto_complexities[c + 1] = c
              /\ IF LoggedAt(c) = {}
                 THEN pareto_rewards[c + 1] = NaN /\ pareto_programs[c + 1] = None
                 ELSE /\ pareto_rewards[c + 1] = SetMax({RewardOf(p) : p \in LoggedAt(c)})
                      /\ pareto_programs[c + 1] \in LoggedAt(c)
                      /\ RewardOf(pareto_programs[c + 1]) = pareto_rewards[c + 1]

C2_Step ==
    \A i \in 1..Len(pareto_rewards) :
        pareto_rewards[i] # NaN =>
            /\ pareto_rewards'[i] # NaN
            /\ pareto_rewards'[i] >= pareto_rewards[i]

\* C2: after each log call every bin c in 0..10*max_time_step-1 holds the maximum
\* reward over all logged programs of rounded complexity c together with a logged
\* program of that complexity and reward, or NaN and None when no such program
\* was logged; bins never decrease between log calls.
C2_ParetoBins == []C2_State /\ [][C2_Step]_vars

\* bin 2 keeps the reward 2 of epoch 0 after epoch 1 brought only reward 1 there
C2_Witness ==
    /\ Len(calls) >= 2
    /\ \E p \in LoggedAt(2) : p.ep = 0 /\ RewardOf(p) = 2
    /\ \E p \in LoggedAt(2) : p.ep = 1 /\ RewardOf(p) = 1
    /\ \A p \in LoggedAt(2) : p.ep = 1 => RewardOf(p) = 1
    /\ pareto_rewards[3] = 2
    /\ pareto_programs[3].ep = 0

\* ------------------------------------------------------------------- C8
\* the best program of the batch just logged at the complexity of bin i
BatchBestAt(i) ==
    LET here == {p \in Logged' : p.ep = epoch' /\ Round2(calls'[p.ep + 1].batch.programs[p.idx].c2) = i - 1}
    IN IF here = {} THEN NaN
       ELSE SetMax({calls'[p.ep + 1].rewards[p.idx] : p \in here})

C8_Step ==
    (Len(calls') = Len(calls) + 1 /\ epoch' > 0) =>
        \A i \in 1..Len(pareto_rewards) :
            (pareto_rewards[i] # NaN /\ BatchBestAt(i) = pareto_rewards[i]) =>
                pareto_programs'[i] = pareto_programs[i]

\* C8: a batch whose best reward at a complexity merely equals the stored reward
\* of that bin leaves the stored program unchanged (the bin is replaced only by a
\* greater reward, or when it is empty).
C8_TieKeepsProgram == [][C8_Step]_vars

\* ------------------------------------------------------------------- C3
Valid(i) == pareto_rewards[i] # NaN /\ pareto_rewards[i] > 0

\* the valid bins whose reward is strictly higher than that of every valid bin
\* of smaller complexity
FrontBins == {i \in 1..Len(pareto_rewards) :
                 Valid(i) /\ \A j \in 1..(i - 1) : Valid(j) => pareto_rewards[j] < pareto_rewards[i]}

C3_FrontIsExact ==
    LET n == Len(ret.complexities) IN
    /\ Len(ret.programs) = n /\ Len(ret.r) = n
    /\ {ret.complexities[k] + 1 : k \in 1..n} = FrontBins
    /\ \A k \in 1..n :
          /\ ret.programs[k] = pareto_programs[ret.complexities[k] + 1]
          /\ ret.r[k] = pareto_rewards[ret.complexities[k] + 1]
    /\ \A k \in 2..n : /\ ret.complexities[k - 1] < ret.complexities[k]
                       /\ ret.r[k - 1] < ret.r[k]
    /\ \A i \in 1..Len(pareto_rewards) :
          Valid(i) =>
             /\ (\A j \in 1..(i - 1) : ~Valid(j)) => ret.complexities[1] = i - 1
             /\ (i \notin FrontBins) =>
                   \E k \in 1..n : /\ ret.complexities[k] < i - 1
                                   /\ ret.r[k] >= pareto_rewards[i]

\* C3 as stated: every call of get_pareto_front on a logger that has logged
\* returns exactly the valid bins that beat every valid bin of smaller complexity.
C3_AlwaysReturnsFront ==
    (epoch # NoEpoch /\ ret.kind # "None") => (ret.kind = "front" /\ C3_FrontIsExact)

\* C3 (amended): when at least one valid bin exists get_pareto_front returns
\* exactly the valid bins whose reward is strictly higher than that of every
\* valid bin of smaller complexity, in increasing complexity, the three arrays
\* aligned; when no valid bin exists it raises IndexError and returns nothing.
C3_ParetoFront ==
    (epoch # NoEpoch /\ ret.kind # "None") =>
        IF \E i \in 1..Len(pareto_rewards) : Valid(i)
        THEN ret.kind = "front" /\ C3_FrontIsExact
        ELSE ret.kind = "IndexError"

\* a front of two bins with a valid bin between them left out, and a valid bin
\* above them left out because it only ties
C3_Witness ==
    /\ ret.kind = "front"
    /\ Len(ret.complexities) = 2
    /\ \E i \in 1..Len(pareto_rewards) :
          /\ Valid(i) /\ i \notin FrontBins
          /\ ret.complexities[1] < i - 1 /\ i - 1 < ret.complexities[2]

\* ------------------------------------------------------------------- C4
RECURSIVE SumOver(_, _)
SumOver(f, S) == IF S = {} THEN 0
                 ELSE LET x == CHOOSE y \in S : TRUE IN f[x] + SumOver(f, S \ {x})

KeepSet(k)  == {calls[k].keep[j] : j \in 1..Len(calls[k].keep)}
SizeOf(k)   == calls[k].batch.batch_size
\* rows written before those of call k
RowsBefore(k) == SumOver([j \in 1..Len(calls) |-> SizeOf(j)], 1..(k - 1))

C4_State ==
    /\ ~do_save => file = Stale
    /\ (do_save /\ Len(calls) > 0) =>
          /\ Len(file) = 1 + RowsBefore(Len(calls) + 1)
          /\ file[1].kind = "header"
          /\ \A k \in 1..Len(calls) : \A i \in 1..SizeOf(k) :
                LET row == file[1 + RowsBefore(k) + i] IN
                /\ row.kind = "row"
                /\ row.epoch = k - 1
                /\ row.program = [ep |-> k - 1, idx |-> i]
                /\ row.reward = calls[k].rewards[i]
                /\ row.complexity = calls[k].batch.programs[i].c2
                /\ row.length = calls[k].batch.programs[i].len
                /\ row.is_physical = calls[k].batch.programs[i].phys
                /\ row.is_elite = (i \in KeepSet(k))

C4_Step ==
    (Len(calls') = Len(calls) + 1 /\ epoch' > 0 /\ do_save) =>
        /\ IsPrefix(file, file')
        /\ Len(file') = Len(file) + calls'[Len(calls')].batch.batch_size

\* C4: with do_save the file holds one header row followed by batch_size rows per
\* logged epoch, in epoch order and batch order, is_elite true exactly for the
\* indices in keep; a log call at an epoch > 0 only appends; without do_save log
\* never writes to the file.
C4_CsvLog == []C4_State /\ [][C4_Step]_vars

\* three epochs saved over a file left by an earlier run, one program elite
C4_Witness ==
    /\ do_save
    /\ Len(calls) = 3
    /\ Len(file) = 1 + 3 * BatchSize
    /\ \E i \in 2..Len(file) : file[i].is_elite
    /\ \E i \in 2..Len(file) : ~file[i].is_elite

\* ------------------------------------------------------------------- C6
MeanOver(f, S) == [sum |-> SumOver(f, S), n |-> Cardinality(S)]
Idx(k)         == 1..SizeOf(k)
PhysOf(k)      == {i \in Idx(k) : calls[k].batch.programs[i].phys}
LenOf(k)       == [i \in Idx(k) |-> calls[k].batch.programs[i].len]
CplxOf(k)      == [i \in Idx(k) |-> calls[k].batch.programs[i].c2]
Pick(f, idxs)  == [j \in 1..Len(idxs) |-> f[idxs[j]]]

Histories == <<epochs_history, loss_history, mean_R_history, mean_R_train_history,
               max_R_history, overall_max_R_history, R_history, R_history_train,
               best_prog_complexity_history, mean_complexity_history,
               n_physical, lengths_of_physical, lengths_of_unphysical>>

C6_Lengths == \A h \in 1..Len(Histories) : Len(Histories[h]) = Len(calls)

\* entry k of every history but overall_max_R_history, from the call of epoch k-1
C6_Entries ==
    \A k \in 1..Len(calls) :
        /\ epochs_history[k] = k - 1
        /\ loss_history[k] = calls[k].loss_val
        /\ mean_R_history[k] = MeanOver(calls[k].rewards, Idx(k))
        /\ mean_R_train_history[k] = MeanOver(calls[k].rewards, KeepSet(k))
        /\ max_R_history[k] = EpochMax(k)
        /\ R_history[k] = calls[k].rewards
        /\ Len(R_history_train[k]) = Len(calls[k].keep)
        /\ \A j \in 1..Len(calls[k].keep) :
              R_history_train[k][j] = calls[k].rewards[calls[k].keep[j]]
        /\ best_prog_complexity_history[k] = CplxOf(k)[FirstMaxIdx(calls[k].rewards)]
        /\ mean_complexity_history[k] = MeanOver(CplxOf(k), Idx(k))
        /\ n_physical[k] = Cardinality(PhysOf(k))
        /\ lengths_of_physical[k] = Pick(LenOf(k), SetToIdx(PhysOf(k)))
        /\ lengths_of_unphysical[k] = Pick(LenOf(k), SetToIdx(Idx(k) \ PhysOf(k)))

C6_Step == \A h \in 1..Len(Histories) : IsPrefix(Histories[h], Histories'[h])

\* two epochs that were given the same batch, rewards, keep and loss
SameCall(j, k) ==
    /\ calls[j].batch = calls[k].batch /\ calls[j].rewards = calls[k].rewards
    /\ calls[j].keep = calls[k].keep   /\ calls[j].loss_val = calls[k].loss_val

\* C6 as stated: every history has e+1 entries and entry k, overall_max_R_history
\* included, was computed from the batch logged at epoch k only, so two epochs
\* given the same batch have the same entry.
C6_PerEpochOnly ==
    /\ C6_Lengths
    /\ C6_Entries
    /\ \A j \in 1..Len(calls) : \A k \in 1..Len(calls) :
          SameCall(j, k) => overall_max_R_history[j] = overall_max_R_history[k]

\* C6 (amended): after the call for epoch e every history has exactly e+1
\* entries and earlier entries are never modified; entry k of every history but
\* overall_max_R_history was computed from the batch logged at epoch k only,
\* while overall_max_R_history[k] is the maximum reward over the batches of
\* epochs 0..k.
C6_Histories ==
    /\ [](C6_Lengths /\ C6_Entries)
    /\ [](\A k \in 1..Len(calls) : overall_max_R_history[k] = SetMax(RewardsUpTo(k)))
    /\ [][C6_Step]_vars

\* three epochs, the elite a strict part of the batch, physical and unphysical
\* programs in one batch, and the best so far above the second epoch's maximum
C6_Witness ==
    /\ Len(calls) = 3
    /\ Len(calls[3].keep) < SizeOf(3)
    /\ PhysOf(3) # {} /\ PhysOf(3) # Idx(3)
    /\ overall_max_R_history[2] > EpochMax(2)
    /\ loss_history[1] # loss_history[2]

\* ------------------------------------------------------------------- C5
C5_Common ==
    /\ last.called =>
          /\ last.attempted = (last.epoch % epoch_refresh_rate = 0)
          /\ last.attempted => (last.show_called = vis_do_show)
          /\ ~last.attempted => (~last.show_called /\ ~last.save_called /\ ~last.caught)
          /\ last.initialized = (last.epoch = 0)
          /\ vis_run_logger = last.epoch
          /\ vis_batch = calls[last.epoch + 1].batch
    /\ fig = (0 \in vis_epochs)

\* C5 as stated: on a refresh epoch save_visualisation runs iff do_save.
C5_SaveIffDoSave ==
    /\ C5_Common
    /\ (last.called /\ last.attempted) => (last.save_called = vis_do_save)

\* C5 (amended): visualise at epoch e attempts a render iff
\* e % epoch_refresh_rate = 0; on such an epoch it runs make_visualisation iff
\* do_show, and save_visualisation iff do_save and make_visualisation, if it ran,
\* did not raise; on every other epoch it neither displays nor saves and only
\* records run_logger and batch; the figure is created only at epoch 0.
C5_PeriodicRendering ==
    /\ C5_Common
    /\ (last.called /\ last.attempted) =>
          (last.save_called = (vis_do_save /\ ~last.show_raised))

\* a refresh epoch other than 0 that showed and saved, after an epoch skipped
C5_Witness ==
    /\ last.called /\ last.epoch = 2 /\ epoch_refresh_rate = 2
    /\ 1 \in vis_epochs
    /\ last.show_called /\ last.save_called /\ ~last.caught

\* ------------------------------------------------------------------ C10
C10_Contained ==
    last.called =>
        /\ last.returned
        /\ last.caught = (last.show_raised \/ last.save_raised)
        /\ last.caught = (last.printed = "Unable to make visualisation plots.")
        /\ (vis_do_show /\ vis_do_save /\ last.show_raised) => ~last.save_called

C10_Step == (last' # last) => UNCHANGED <<histVars, bestVars, paretoVars>>

\* C10 as stated: if visualise was never called with epoch 0, every refresh
\* epoch ends in the caught failure.
C10_NoFigureAlwaysFails ==
    (last.called /\ last.attempted /\ 0 \notin vis_epochs) => last.caught

C10_NoFigure ==
    (last.called /\ last.attempted /\ 0 \notin vis_epochs
       /\ (vis_do_show \/ vis_do_save)) => last.caught

\* C10 (amended): an exception raised inside make_visualisation or
\* save_visualisation is caught by visualise, which prints the message and returns
\* without changing any RunLogger history; when show raises, save is not
\* attempted; if visualise was never called with epoch 0, every refresh epoch on
\* which do_show or do_save is set ends in the caught failure (with both unset
\* nothing is rendered and nothing fails).
C10_FailuresContained == [](C10_Contained /\ C10_NoFigure) /\ [][C10_Step]_vars

\* no figure, show and save both set: show raises, save is skipped
C10_Witness ==
    /\ last.called /\ last.attempted /\ 0 \notin vis_epochs
    /\ vis_do_show /\ vis_do_save
    /\ last.show_raised /\ ~last.save_called /\ last.caught

\* ------------------------------------------------------------------- C9
\* the path with only its final '.'-delimited extension removed
StripExt(path) ==
    IF \A i \in 1..Len(path) : path[i] # "." THEN path
    ELSE LET d == CHOOSE i \in 1..Len(path) :
                     path[i] = "." /\ \A j \in (i + 1)..Len(path) : path[j] # "."
         IN SubSeq(path, 1, d - 1)

\* C9: save_path_log is save_path with only its final extension removed and
\* "_log.csv" appended, every other character preserved, also for paths with
\* several dots and paths with no dot.
C9_SavePathLog == constructed => save_path_log = StripExt(save_path) \o LogSuffix
====
